---- MODULE Spec2Model ----
(***************************************************************************)
(* A model of the MyAnimeList schedule scraper (src/api/index.js): the     *)
(* per-field extraction rules of scrapeAnimeSchedule, the grouping and     *)
(* filtering of records, and the /api/anime-schedule request handler.      *)
(*                                                                         *)
(* Text is modelled as a sequence of one-character strings, so that        *)
(* trimming, prefix tests, substring tests and the regular expressions of  *)
(* the source are computed character by character.                         *)
(***************************************************************************)
EXTENDS Integers, Sequences, FiniteSets, TLC

VARIABLES req, now, call

vars == <<req, now, call>>

(***************************************************************************)
(* JavaScript values.  Every value is a record of the same shape so that   *)
(* null, NaN, numbers and strings can be compared with one another.        *)
(* A number is n / 10^d with d as small as possible.                       *)
(***************************************************************************)
Null == [t |-> "null", n |-> 0, d |-> 0, s |-> <<>>]

Undefined == [t |-> "undefined", n |-> 0, d |-> 0, s |-> <<>>]

NaN == [t |-> "nan", n |-> 0, d |-> 0, s |-> <<>>]

Str(chars) == [t |-> "str", n |-> 0, d |-> 0, s |-> chars]

RECURSIVE Num(_, _)
Num(n, d) ==
  IF d > 0 /\ n % 10 = 0 THEN Num(n \div 10, d - 1)
  ELSE [t |-> "num", n |-> n, d |-> d, s |-> <<>>]

\* JavaScript truthiness of a value: null, undefined, NaN, 0 and "" are falsy.
Truthy(v) ==
  CASE v.t = "str" -> v.s # <<>>
    [] v.t = "num" -> v.n # 0
    [] OTHER -> FALSE

\* a || b
OrElse(a, b) == IF Truthy(a) THEN a ELSE b

(***************************************************************************)
(* Characters and strings.                                                 *)
(***************************************************************************)
Digits == {"0", "1", "2", "3", "4", "5", "6", "7", "8", "9"}

Letters ==
  {"a", "b", "c", "d", "e", "f", "g", "h", "i", "j", "k", "l", "m",
   "n", "o", "p", "q", "r", "s", "t", "u", "v", "w", "x", "y", "z",
   "A", "B", "C", "D", "E", "F", "G", "H", "I", "J", "K", "L", "M",
   "N", "O", "P", "Q", "R", "S", "T", "U", "V", "W", "X", "Y", "Z"}

\* The white space of String.prototype.trim and of \s that the inputs use.
WhiteSpace == {" ", "\n", "\t"}

DigitVal(c) ==
  CASE c = "0" -> 0 [] c = "1" -> 1 [] c = "2" -> 2 [] c = "3" -> 3
    [] c = "4" -> 4 [] c = "5" -> 5 [] c = "6" -> 6 [] c = "7" -> 7
    [] c = "8" -> 8 [] c = "9" -> 9

\* s.substring(i - 1): the text from position i (1-based) to the end.
From(s, i) == IF i > Len(s) THEN <<>> ELSE SubSeq(s, i, Len(s))

\* s.startsWith(p)
StartsWith(s, p) == Len(p) <= Len(s) /\ SubSeq(s, 1, Len(p)) = p

\* Whether p occurs in s at position i.
MatchAt(s, p, i) ==
  i >= 1 /\ i + Len(p) - 1 <= Len(s) /\ SubSeq(s, i, i + Len(p) - 1) = p

\* s.includes(p)
Includes(s, p) == \E i \in 1..(Len(s) + 1) : MatchAt(s, p, i)

RECURSIVE TrimStart(_)
TrimStart(s) ==
  IF s # <<>> /\ Head(s) \in WhiteSpace THEN TrimStart(Tail(s)) ELSE s

RECURSIVE TrimEnd(_)
TrimEnd(s) ==
  IF s # <<>> /\ s[Len(s)] \in WhiteSpace
  THEN TrimEnd(SubSeq(s, 1, Len(s) - 1))
  ELSE s

\* s.trim()
Trim(s) == TrimEnd(TrimStart(s))

\* The length of the longest prefix of s whose characters are all in set.
RECURSIVE Span(_, _)
Span(s, set) ==
  IF s # <<>> /\ Head(s) \in set THEN 1 + Span(Tail(s), set) ELSE 0

\* The number a sequence of decimal digits denotes.
RECURSIVE DigitsValue(_)
DigitsValue(ds) ==
  IF ds = <<>> THEN 0
  ELSE 10 * DigitsValue(SubSeq(ds, 1, Len(ds) - 1)) + DigitVal(ds[Len(ds)])

\* s.replace(/,/g, '')
RECURSIVE RemoveCommas(_)
RemoveCommas(s) ==
  IF s = <<>> THEN <<>>
  ELSE IF Head(s) = "," THEN RemoveCommas(Tail(s))
  ELSE <<Head(s)>> \o RemoveCommas(Tail(s))

(***************************************************************************)
(* parseFloat: leading white space is skipped, then the longest prefix     *)
(* that is a decimal literal (sign, digits, a point, digits) is the value; *)
(* with no such prefix the result is NaN.  The exponent part and the word  *)
(* "Infinity" are not modelled: no text drawn below contains an e, E or I  *)
(* where a literal could continue.                                         *)
(***************************************************************************)
ParseFloat(str) ==
  LET s0   == TrimStart(str)
      sg   == IF s0 # <<>> /\ Head(s0) \in {"+", "-"} THEN 1 ELSE 0
      neg  == sg = 1 /\ Head(s0) = "-"
      s1   == From(s0, sg + 1)
      ni   == Span(s1, Digits)
      s2   == From(s1, ni + 1)
      dot  == s2 # <<>> /\ Head(s2) = "."
      nf   == IF dot THEN Span(Tail(s2), Digits) ELSE 0
      ds   == SubSeq(s1, 1, ni) \o (IF dot THEN SubSeq(s2, 2, nf + 1) ELSE <<>>)
      m    == DigitsValue(ds)
  IN  IF ni + nf = 0 THEN NaN
      ELSE Num(IF neg THEN 0 - m ELSE m, nf)

(***************************************************************************)
(* parseInt without a radix: leading white space is skipped, then a sign   *)
(* and the longest prefix of decimal digits; with no digit the result is   *)
(* NaN.  (A "0x" prefix selects base 16; the inputs below have no "x".)    *)
(***************************************************************************)
ParseInt(str) ==
  LET s0  == TrimStart(str)
      sg  == IF s0 # <<>> /\ Head(s0) \in {"+", "-"} THEN 1 ELSE 0
      neg == sg = 1 /\ Head(s0) = "-"
      s1  == From(s0, sg + 1)
      ni  == Span(s1, Digits)
      m   == DigitsValue(SubSeq(s1, 1, ni))
  IN  IF ni = 0 THEN NaN
      ELSE Num(IF neg THEN 0 - m ELSE m, 0)

(***************************************************************************)
(* Score (lines 60-65) and members (lines 67-71) of one entry element.     *)
(* el.jsScore, el.score and el.jsMembers are the text() of the first       *)
(* .js-score, .score and .js-members node ("" when there is none).         *)
(***************************************************************************)
NA == <<"N", "/", "A">>

QuestionMark == <<"?">>

ScoreText(el) == OrElse(Str(Trim(el.jsScore)), Str(Trim(el.score))).s

ScoreOf(scoreText) ==
  IF scoreText # <<>> /\ scoreText # NA /\ scoreText # QuestionMark
     /\ Len(scoreText) > 0
  THEN ParseFloat(scoreText)
  ELSE Null

Score(el) == ScoreOf(ScoreText(el))

MembersText(el) == Trim(el.jsMembers)

MembersOf(membersText) ==
  IF membersText # <<>> /\ Len(membersText) > 0
  THEN ParseInt(RemoveCommas(membersText))
  ELSE Null

Members(el) == MembersOf(MembersText(el))

(***************************************************************************)
(* Identifier (lines 53-55) and title (line 58, line 134).                 *)
(* el.href is the href attribute of the first ".title .link-title" node    *)
(* (Undefined when there is none), el.linkText its text(), el.jsTitle the  *)
(* text() of the first .js-title node.                                     *)
(***************************************************************************)
AnimePath == <<"/", "a", "n", "i", "m", "e", "/">>

\* Whether /\/anime\/(\d+)\// matches href at position i.
IdMatchAt(href, i) ==
  /\ MatchAt(href, AnimePath, i)
  /\ LET rest == From(href, i + Len(AnimePath))
         k    == Span(rest, Digits)
     IN  k >= 1 /\ MatchAt(rest, <<"/">>, k + 1)

\* href.match(/\/anime\/(\d+)\//)?.[1] || null
MalId(el) ==
  LET href == OrElse(el.href, Str(<<>>)).s
      at   == {i \in 1..Len(href) : IdMatchAt(href, i)}
  IN  IF at = {} THEN Null
      ELSE LET i    == CHOOSE j \in at : \A k \in at : j <= k
               rest == From(href, i + Len(AnimePath))
           IN  OrElse(Str(SubSeq(rest, 1, Span(rest, Digits))), Null)

UnknownTitle == <<"U", "n", "k", "n", "o", "w", "n", " ", "T", "i", "t", "l", "e">>

\* let title = titleLink.text().trim() || animeElement.find('.js-title')...
ExtractedTitle(el) == OrElse(Str(Trim(el.linkText)), Str(Trim(el.jsTitle)))

\* title: title || 'Unknown Title'
Title(el) == OrElse(ExtractedTitle(el), Str(UnknownTitle))

(***************************************************************************)
(* Image URL (lines 73-92).  el.dataSrc, el.src and el.dataLazySrc are the *)
(* attributes of the first ".image img" node (Undefined when absent).      *)
(***************************************************************************)
Http == <<"h", "t", "t", "p">>

HttpsColon == <<"h", "t", "t", "p", "s", ":">>

Origin == <<"h", "t", "t", "p", "s", ":", "/", "/", "m", "y", "a", "n", "i", "m", "e", "l", "i", "s", "t", ".", "n", "e", "t">>

DotWebp == <<".", "w", "e", "b", "p">>

RasterExtensions == <<<<"j", "p", "g">>, <<"j", "p", "e", "g">>, <<"p", "n", "g">>, <<"g", "i", "f">>>>

\* Whether /\.(jpg|jpeg|png|gif)(\?.*)?$/ matches url at position i: a dot
\* and an extension, then the end of the text or a "?" and the rest of the
\* text (the . of .* matches no line terminator).
ExtMatchAt(url, i) ==
  \E x \in 1..Len(RasterExtensions) :
    LET ext == <<".">> \o RasterExtensions[x]
        j   == i + Len(ext)
    IN  /\ MatchAt(url, ext, i)
        /\ \/ j = Len(url) + 1
           \/ /\ MatchAt(url, <<"?">>, j)
              /\ \A k \in (j + 1)..Len(url) : url[k] # "\n"

\* imageUrl.replace(/\.(jpg|jpeg|png|gif)(\?.*)?$/, '.webp')
ReplaceExtension(url) ==
  LET at == {i \in 1..Len(url) : ExtMatchAt(url, i)}
  IN  IF at = {} THEN url
      ELSE LET i == CHOOSE j \in at : \A k \in at : j <= k
           IN  SubSeq(url, 1, i - 1) \o DotWebp

\* lines 79-85
ResolveUrl(url) ==
  IF ~StartsWith(url, Http)
  THEN IF StartsWith(url, <<"/", "/">>) THEN HttpsColon \o url
       ELSE IF StartsWith(url, <<"/">>) THEN Origin \o url
       ELSE url
  ELSE url

\* lines 88-91
ToWebp(url) == IF ~Includes(url, DotWebp) THEN ReplaceExtension(url) ELSE url

\* line 75
ImageAttr(el) == OrElse(OrElse(el.dataSrc, el.src), el.dataLazySrc)

\* lines 75-92 and line 137 (imageUrl || null)
ImageUrl(el) ==
  LET attr == ImageAttr(el)
      url  == IF Truthy(attr) THEN Str(ToWebp(ResolveUrl(attr.s))) ELSE attr
  IN  OrElse(url, Null)

(***************************************************************************)
(* Air date, episode count and duration (lines 94-130).  el.info is the    *)
(* text() of the first .info node.                                         *)
(***************************************************************************)
Eps == <<"e", "p", "s">>

Min == <<"m", "i", "n">>

\* s.split('\n')
RECURSIVE SplitLines(_)
SplitLines(s) ==
  LET nl == {i \in 1..Len(s) : s[i] = "\n"}
  IN  IF nl = {} THEN <<s>>
      ELSE LET i == CHOOSE j \in nl : \A k \in nl : j <= k
           IN  <<SubSeq(s, 1, i - 1)>> \o SplitLines(From(s, i + 1))

\* infoText.split('\n').map(line => line.trim()).filter(line => line)
InfoLines(infoText) ==
  LET raw     == SplitLines(infoText)
      trimmed == [i \in 1..Len(raw) |-> Trim(raw[i])]
  IN  SelectSeq(trimmed, LAMBDA line : line # <<>>)

\* Whether /(C+)\s+word/ matches line at position i, C a character class.
TokenMatchAt(line, class, word, i) ==
  LET rest == From(line, i)
      k    == Span(rest, class)
      w    == Span(From(rest, k + 1), WhiteSpace)
  IN  k >= 1 /\ w >= 1 /\ MatchAt(rest, word, k + w + 1)

\* line.match(/(C+)\s+word/)?.[1]: the captured group of the leftmost match,
\* Null when there is none.
TokenMatch(line, class, word) ==
  LET at == {i \in 1..Len(line) : TokenMatchAt(line, class, word, i)}
  IN  IF at = {} THEN Null
      ELSE LET i == CHOOSE j \in at : \A k \in at : j <= k
           IN  Str(SubSeq(line, i, i + Span(From(line, i), class) - 1))

\* line.match(/([\d?]+)\s+eps/)
EpMatch(line) == TokenMatch(line, Digits \cup {"?"}, Eps)

\* line.match(/(\d+)\s+min/)
DurMatch(line) == TokenMatch(line, Digits, Min)

\* line.match(/^[A-Za-z]{3}\s+\d{1,2},\s+\d{4}/)
DateMatch(line) ==
  LET w1 == Span(From(line, 4), WhiteSpace)
      r1 == From(line, 4 + w1)
      k  == Span(r1, Digits)
      r2 == From(r1, k + 1)
      w2 == Span(From(r2, 2), WhiteSpace)
      r3 == From(r2, 2 + w2)
  IN  /\ Len(line) >= 3
      /\ \A i \in 1..3 : line[i] \in Letters
      /\ w1 >= 1
      /\ k \in {1, 2}
      /\ MatchAt(r2, <<",">>, 1)
      /\ w2 >= 1
      /\ Span(r3, Digits) >= 4

\* ScanLine stopping at the first match of each field: a field already set
\* is not overwritten.
ScanLineFirstWins(f, line) ==
  IF Includes(line, Eps)
  THEN LET epMatch  == EpMatch(line)
           durMatch == DurMatch(line)
       IN  [aired    |-> f.aired,
            episodes |-> IF epMatch # Null /\ f.episodes = Null
                         THEN epMatch ELSE f.episodes,
            duration |-> IF durMatch # Null /\ f.duration = Null
                         THEN Str(durMatch.s \o <<" ">> \o Min)
                         ELSE f.duration]
  ELSE IF DateMatch(line) /\ f.aired = Null
       THEN [f EXCEPT !.aired = Str(line)]
       ELSE f

\* The body of the for loop (lines 108-129) for one line; f holds aired,
\* episodes and duration.
ScanLine(f, line) ==
  IF Includes(line, Eps)
  THEN LET epMatch  == EpMatch(line)
           durMatch == DurMatch(line)
       IN  [aired    |-> f.aired,
            episodes |-> IF epMatch # Null THEN epMatch ELSE f.episodes,
            duration |-> IF durMatch # Null
                         THEN Str(durMatch.s \o <<" ">> \o Min)
                         ELSE f.duration]
  ELSE IF DateMatch(line)
       THEN [f EXCEPT !.aired = Str(line)]
       ELSE f

\* lines 99-101
NoInfo == [aired |-> Null, episodes |-> Null, duration |-> Null]

RECURSIVE ScanLines(_, _)
ScanLines(f, lines) ==
  IF lines = <<>> THEN f ELSE ScanLines(ScanLine(f, Head(lines)), Tail(lines))

\* lines 95-96, 103 and 106: the lines the loop scans.
ElementInfoLines(el) ==
  LET infoText == Trim(el.info)
  IN  IF infoText # <<>> THEN InfoLines(infoText) ELSE <<>>

\* lines 95-130
Info(el) == ScanLines(NoInfo, ElementInfoLines(el))

(***************************************************************************)
(* The record of one entry (lines 132-142) and the title test (line 145).  *)
(***************************************************************************)
AnimeData(el, dayName) ==
  LET info == Info(el)
  IN  [id       |-> MalId(el),
       title    |-> Title(el),
       score    |-> Score(el),
       members  |-> Members(el),
       imageUrl |-> ImageUrl(el),
       day      |-> dayName,
       aired    |-> info.aired,
       episodes |-> info.episodes,
       duration |-> info.duration]

\* The title test without the comparison with the sentinel.
HasTitleNoSentinel(animeData) == Truthy(animeData.title)

\* if (animeData.title && animeData.title !== 'Unknown Title')
HasTitle(animeData) ==
  Truthy(animeData.title) /\ animeData.title # Str(UnknownTitle)

(***************************************************************************)
(* Documents.  A document is the sequence of its nodes in document order:  *)
(* a container node (an element of class js-seasonal-anime-list-key-<key>) *)
(* or an entry node (an element of class seasonal-anime).  An entry is a   *)
(* descendant of the nearest container before it; an entry before every    *)
(* container lies outside all of them.                                     *)
(***************************************************************************)
NoElement ==
  [href |-> Undefined, linkText |-> <<>>, jsTitle |-> <<>>, jsScore |-> <<>>,
   score |-> <<>>, jsMembers |-> <<>>, dataSrc |-> Undefined, src |-> Undefined,
   dataLazySrc |-> Undefined, info |-> <<>>]

Container(key) == [kind |-> "container", key |-> key, el |-> NoElement]

Entry(el) == [kind |-> "entry", key |-> "", el |-> el]

\* lines 25-35; Object.keys lists the keys in this order.
DayKeys ==
  <<"monday", "tuesday", "wednesday", "thursday", "friday", "saturday",
    "sunday", "other", "unknown">>

DayName(dayKey) ==
  CASE dayKey = "monday" -> "Monday"
    [] dayKey = "tuesday" -> "Tuesday"
    [] dayKey = "wednesday" -> "Wednesday"
    [] dayKey = "thursday" -> "Thursday"
    [] dayKey = "friday" -> "Friday"
    [] dayKey = "saturday" -> "Saturday"
    [] dayKey = "sunday" -> "Sunday"
    [] dayKey = "other" -> "Other"
    [] dayKey = "unknown" -> "Unknown"

\* The position of the container an entry at position i lies in (0: none).
ContainerAt(doc, i) ==
  LET before == {j \in 1..(i - 1) : doc[j].kind = "container"}
  IN  IF before = {} THEN 0 ELSE CHOOSE j \in before : \A k \in before : k <= j

\* $(selector).length > 0
HasContainer(doc, dayKey) ==
  \E i \in 1..Len(doc) : doc[i].kind = "container" /\ doc[i].key = dayKey

\* Whether node i is matched by dayContainer.find('.seasonal-anime').
InDay(doc, dayKey, i) ==
  /\ doc[i].kind = "entry"
  /\ ContainerAt(doc, i) # 0
  /\ doc[ContainerAt(doc, i)].key = dayKey

\* The positions find() yields, in document order.
RECURSIVE EntryPositions(_, _, _)
EntryPositions(doc, dayKey, i) ==
  IF i > Len(doc) THEN <<>>
  ELSE (IF InDay(doc, dayKey, i) THEN <<i>> ELSE <<>>)
       \o EntryPositions(doc, dayKey, i + 1)

\* lines 46-148: the records of one day, entries without a title left out.
AnimeList(doc, dayKey) ==
  LET at  == EntryPositions(doc, dayKey, 1)
      all == [k \in 1..Len(at) |-> AnimeData(doc[at[k]].el, DayName(dayKey))]
  IN  SelectSeq(all, HasTitle)

\* The groups in the order their containers occur in the document, from
\* node k on, instead of the order of the day keys.
RECURSIVE ScheduleInDocumentOrder(_, _)
ScheduleInDocumentOrder(doc, k) ==
  IF k > Len(doc) THEN <<>>
  ELSE (IF /\ doc[k].kind = "container"
           /\ \E d \in 1..Len(DayKeys) : DayKeys[d] = doc[k].key
           /\ \A j \in 1..(k - 1) :
                ~(doc[j].kind = "container" /\ doc[j].key = doc[k].key)
        THEN <<[day   |-> DayName(doc[k].key),
                anime |-> AnimeList(doc, doc[k].key)]>>
        ELSE <<>>)
       \o ScheduleInDocumentOrder(doc, k + 1)

\* lines 37-155: the forEach over the day keys, from the k-th key on.
RECURSIVE ScheduleFrom(_, _)
ScheduleFrom(doc, k) ==
  IF k > Len(DayKeys) THEN <<>>
  ELSE (IF HasContainer(doc, DayKeys[k])
        THEN <<[day   |-> DayName(DayKeys[k]),
                anime |-> AnimeList(doc, DayKeys[k])]>>
        ELSE <<>>)
       \o ScheduleFrom(doc, k + 1)

\* A filter that keeps every day.
AnyDay(daySchedule) == TRUE

\* daySchedule => daySchedule.anime.length > 0
NonEmptyDay(daySchedule) == Len(daySchedule.anime) > 0

\* lines 37-158: what scrapeAnimeSchedule returns for a loaded document.
Scrape(doc) == SelectSeq(ScheduleFrom(doc, 1), NonEmptyDay)

(***************************************************************************)
(* Bounds and inputs.                                                      *)
(***************************************************************************)
MaxText == 3

MaxTokens == 4

MaxLines == 3

\* Every text of at most n characters of the alphabet.
Texts(alphabet, n) == UNION {[1..k -> alphabet] : k \in 0..n}

RECURSIVE Flatten(_)
Flatten(parts) ==
  IF parts = <<>> THEN <<>> ELSE Head(parts) \o Flatten(Tail(parts))

ScoreChars == {"8", ".", "5", "?", "N", "/", "A", " "}

ScoreTexts == Texts(ScoreChars, MaxText) \cup {<<"-", "8", ".", "5", "0">>}

MembersChars == {"1", "2", ",", "K", " ", "-"}

MembersTexts == Texts(MembersChars, MaxText) \cup {<<"1", "2", ",", "3", "4", "5">>}

UrlTokens ==
  {<<"h", "t", "t", "p", "s", ":">>, <<"/">>, <<"/", "a">>, <<"i", "m", "g">>, <<".", "j", "p", "g">>, <<".", "j", "p", "e", "g">>, <<".", "p", "n", "g">>, <<".", "g", "i", "f">>,
   <<".", "w", "e", "b", "p">>, <<".", "b", "m", "p">>, <<"?", "s">>}

Urls == {Flatten(parts) : parts \in Texts(UrlTokens, MaxTokens)}

Attrs == {Undefined} \cup {Str(u) : u \in Urls}

(***************************************************************************)
(* The score of one entry, read as the code reads it: the .js-score text   *)
(* first, the .score text only when the first is empty after trimming.     *)
(***************************************************************************)
InitScore ==
  /\ req = <<>>
  /\ now = 0
  /\ call = [op |-> "score", pc |-> "jsScore", el |-> NoElement, out |-> Undefined]

ReadJsScore ==
  /\ call.op = "score" /\ call.pc = "jsScore"
  /\ \E text \in ScoreTexts :
       call' = [call EXCEPT !.el.jsScore = text,
                            !.pc = IF Truthy(Str(Trim(text))) THEN "parse" ELSE "score"]
  /\ UNCHANGED <<req, now>>

ReadScore ==
  /\ call.op = "score" /\ call.pc = "score"
  /\ \E text \in ScoreTexts :
       call' = [call EXCEPT !.el.score = text, !.pc = "parse"]
  /\ UNCHANGED <<req, now>>

ParseScore ==
  /\ call.op = "score" /\ call.pc = "parse"
  /\ call' = [call EXCEPT !.out = Score(call.el), !.pc = "done"]
  /\ UNCHANGED <<req, now>>

NextScore == ReadJsScore \/ ReadScore \/ ParseScore

SpecScore == InitScore /\ [][NextScore]_vars

(***************************************************************************)
(* The members count of one entry.                                         *)
(***************************************************************************)
InitMembers ==
  /\ req = <<>>
  /\ now = 0
  /\ call = [op |-> "members", pc |-> "jsMembers", el |-> NoElement, out |-> Undefined]

ReadJsMembers ==
  /\ call.op = "members" /\ call.pc = "jsMembers"
  /\ \E text \in MembersTexts :
       call' = [call EXCEPT !.el.jsMembers = text, !.pc = "parse"]
  /\ UNCHANGED <<req, now>>

ParseMembers ==
  /\ call.op = "members" /\ call.pc = "parse"
  /\ call' = [call EXCEPT !.out = Members(call.el), !.pc = "done"]
  /\ UNCHANGED <<req, now>>

NextMembers == ReadJsMembers \/ ParseMembers

SpecMembers == InitMembers /\ [][NextMembers]_vars

(***************************************************************************)
(* The image URL of one entry: data-src, then src, then data-lazy-src,     *)
(* each read only when those before it are missing or empty.               *)
(***************************************************************************)
InitImage ==
  /\ req = <<>>
  /\ now = 0
  /\ call = [op |-> "image", pc |-> "dataSrc", el |-> NoElement, out |-> Undefined]

ReadDataSrc ==
  /\ call.op = "image" /\ call.pc = "dataSrc"
  /\ \E attr \in Attrs :
       call' = [call EXCEPT !.el.dataSrc = attr,
                            !.pc = IF Truthy(attr) THEN "normalize" ELSE "src"]
  /\ UNCHANGED <<req, now>>

ReadSrc ==
  /\ call.op = "image" /\ call.pc = "src"
  /\ \E attr \in Attrs :
       call' = [call EXCEPT !.el.src = attr,
                            !.pc = IF Truthy(attr) THEN "normalize" ELSE "dataLazySrc"]
  /\ UNCHANGED <<req, now>>

ReadDataLazySrc ==
  /\ call.op = "image" /\ call.pc = "dataLazySrc"
  /\ \E attr \in Attrs :
       call' = [call EXCEPT !.el.dataLazySrc = attr, !.pc = "normalize"]
  /\ UNCHANGED <<req, now>>

NormalizeImage ==
  /\ call.op = "image" /\ call.pc = "normalize"
  /\ call' = [call EXCEPT !.out = ImageUrl(call.el), !.pc = "done"]
  /\ UNCHANGED <<req, now>>

NextImage == ReadDataSrc \/ ReadSrc \/ ReadDataLazySrc \/ NormalizeImage

SpecImage == InitImage /\ [][NextImage]_vars

(***************************************************************************)
(* The info text of one entry: its lines are scanned one by one.           *)
(***************************************************************************)
SampleLines ==
  {<<"O", "c", "t", " ", "6", ",", " ", "2", "0", "2", "5">>,
   <<"1", "1", " ", "e", "p", "s", ",", " ", "2", "3", " ", "m", "i", "n">>,
   <<"?", " ", "e", "p", "s">>,
   <<" ", "N", "o", "v", " ", "1", "2", ",", " ", "2", "0", "2", "4", " ">>,
   <<"T", "V">>,
   <<"2", "4", " ", "m", "i", "n">>,
   <<"1", "2", "e", "p", "s">>,
   <<"O", "c", "t", " ", "6", ",", " ", "2", "0", "2", "5", " ", "e", "p", "s">>,
   <<"O", "c", "t", "o", "b", "e", "r", " ", "6", ",", " ", "2", "0", "2", "5">>,
   <<>>}

\* The lines joined by line breaks, as text() returns them.
RECURSIVE JoinLines(_)
JoinLines(lines) ==
  IF lines = <<>> THEN <<>>
  ELSE IF Len(lines) = 1 THEN Head(lines)
  ELSE Head(lines) \o <<"\n">> \o JoinLines(Tail(lines))

InfoTexts == {JoinLines(lines) : lines \in Texts(SampleLines, MaxLines)}

InitInfo ==
  /\ req = <<>>
  /\ now = 0
  /\ call = [op |-> "info", pc |-> "info", el |-> NoElement, lines |-> <<>>,
             pos |-> 0, prev |-> NoInfo, out |-> NoInfo]

\* lines 95-106
ReadInfo ==
  /\ call.op = "info" /\ call.pc = "info"
  /\ \E text \in InfoTexts :
       call' = [call EXCEPT
                  !.el.info = text,
                  !.lines = ElementInfoLines([call.el EXCEPT !.info = text]),
                  !.pc = "scan"]
  /\ UNCHANGED <<req, now>>

\* one iteration of the loop of lines 108-129
ScanNextLine ==
  /\ call.op = "info" /\ call.pc = "scan"
  /\ call.pos < Len(call.lines)
  /\ call' = [call EXCEPT !.pos = call.pos + 1,
                          !.prev = call.out,
                          !.out = ScanLine(call.out, call.lines[call.pos + 1])]
  /\ UNCHANGED <<req, now>>

ScanDone ==
  /\ call.op = "info" /\ call.pc = "scan"
  /\ call.pos = Len(call.lines)
  /\ call' = [call EXCEPT !.pc = "done"]
  /\ UNCHANGED <<req, now>>

NextInfo == ReadInfo \/ ScanNextLine \/ ScanDone

SpecInfo == InitInfo /\ [][NextInfo]_vars

(***************************************************************************)
(* Properties of the field rules.                                          *)
(***************************************************************************)
\* A text that is a decimal number as a whole: an optional sign, then digits
\* with at most one point.
IsNumericText(text) ==
  LET sg  == IF text # <<>> /\ Head(text) \in {"+", "-"} THEN 1 ELSE 0
      s1  == From(text, sg + 1)
      ni  == Span(s1, Digits)
      r   == From(s1, ni + 1)
      dot == r # <<>> /\ Head(r) = "."
      nf  == IF dot THEN Span(Tail(r), Digits) ELSE 0
  IN  /\ ni + nf >= 1
      /\ sg + ni + (IF dot THEN 1 ELSE 0) + nf = Len(text)

\* C5: the score is null for the score text "", "N/A" or "?", the parsed
\* number for a numeric text, and null (never NaN) for any other text.
C5_ScoreNullOrNumber ==
  (call.op = "score" /\ call.pc = "done") =>
    LET text == ScoreText(call.el)
    IN  /\ text \in {<<>>, NA, QuestionMark} => call.out = Null
        /\ IsNumericText(text) => call.out = ParseFloat(text)
        /\ (text \notin {<<>>, NA, QuestionMark} /\ ~IsNumericText(text))
             => call.out = Null

\* C6: the audience is null for an empty members text and is otherwise the
\* integer read after removing the commas; it is always null or an integer.
C6_MembersNullOrInteger ==
  (call.op = "members" /\ call.pc = "done") =>
    LET text == Trim(call.el.jsMembers)
    IN  /\ text = <<>> => call.out = Null
        /\ text # <<>> => (call.out.t = "num" /\ call.out.d = 0)
        /\ call.out = Null \/ (call.out.t = "num" /\ call.out.d = 0)

\* The URL's path (the text before the first "?") and the rest.
QueryAt(url) ==
  LET q == {i \in 1..Len(url) : url[i] = "?"}
  IN  IF q = {} THEN Len(url) + 1 ELSE CHOOSE i \in q : \A j \in q : i <= j

\* The position of the point that starts the extension of the URL's path
\* (0 when its last segment has none).
ExtensionAt(url) ==
  LET path == SubSeq(url, 1, QueryAt(url) - 1)
      dots == {i \in 1..Len(path) :
                 path[i] = "." /\ \A j \in (i + 1)..Len(path) : path[j] \notin {".", "/"}}
  IN  IF dots = {} THEN 0 ELSE CHOOSE i \in dots : TRUE

\* The image rule as stated: the prefix rules, then only a jpg, jpeg, png or
\* gif extension is rewritten to webp.
StatedImageUrl(el) ==
  LET attr == IF Truthy(el.dataSrc) THEN el.dataSrc
              ELSE IF Truthy(el.src) THEN el.src
              ELSE el.dataLazySrc
      ref  == attr.s
      url  == IF StartsWith(ref, <<"/", "/">>) THEN HttpsColon \o ref
              ELSE IF StartsWith(ref, <<"/">>) THEN Origin \o ref
              ELSE ref
      dot  == ExtensionAt(url)
      q    == QueryAt(url)
      ext  == IF dot = 0 THEN <<>> ELSE SubSeq(url, dot + 1, q - 1)
  IN  IF ~Truthy(attr) THEN Null
      ELSE IF \E x \in 1..Len(RasterExtensions) : RasterExtensions[x] = ext
      THEN Str(SubSeq(url, 1, dot - 1) \o DotWebp \o From(url, q))
      ELSE Str(url)

\* C7: the image URL is the first present attribute, prefixed as stated, with
\* only a jpg, jpeg, png or gif extension rewritten to .webp.
C7_ImageUrlAsStated ==
  (call.op = "image" /\ call.pc = "done") => call.out = StatedImageUrl(call.el)

IsAbsoluteUrl(url) ==
  StartsWith(url, HttpsColon) \/ StartsWith(url, Http \o <<":">>)

\* C8: the image URL is null or an absolute URL.
C8_ImageUrlAbsolute ==
  (call.op = "image" /\ call.pc = "done") =>
    (call.out = Null \/ (call.out.t = "str" /\ IsAbsoluteUrl(call.out.s)))

\* The greatest element of a non-empty set of numbers.
Greatest(S) == CHOOSE i \in S : \A j \in S : j <= i

\* Whether cap, then white space, then word occurs in line.
Followed(line, cap, word) ==
  \E i \in 1..Len(line) : \E w \in 1..Len(line) :
    /\ MatchAt(line, cap, i)
    /\ \A k \in (i + Len(cap))..(i + Len(cap) + w - 1) :
         k <= Len(line) /\ line[k] \in WhiteSpace
    /\ MatchAt(line, word, i + Len(cap) + w)

\* The fields after the first n lines, each the value of the last line that
\* matched it.
LastMatches(lines, n) ==
  LET dates == {i \in 1..n : ~Includes(lines[i], Eps) /\ DateMatch(lines[i])}
      eps   == {i \in 1..n : Includes(lines[i], Eps) /\ EpMatch(lines[i]) # Null}
      durs  == {i \in 1..n : Includes(lines[i], Eps) /\ DurMatch(lines[i]) # Null}
  IN  [aired    |-> IF dates = {} THEN Null ELSE Str(lines[Greatest(dates)]),
       episodes |-> IF eps = {} THEN Null ELSE EpMatch(lines[Greatest(eps)]),
       duration |-> IF durs = {} THEN Null
                    ELSE Str(DurMatch(lines[Greatest(durs)]).s \o <<" ">> \o Min)]

\* C9: a line with "eps" sets only the episode count (digits or "?" before
\* "eps") and the duration ("<N> min") and never the air date; a line
\* without "eps" that starts as a date sets the air date to the whole line;
\* any other line changes nothing; each field ends as the value of the last
\* line that matched it; the two lines "Oct 6, 2025", "11 eps, 23 min" give
\* "Oct 6, 2025", "11" and "23 min".
C9_InfoLastMatchWins ==
  (call.op = "info" /\ call.pc \in {"scan", "done"}) =>
    /\ call.out = LastMatches(call.lines, call.pos)
    /\ call.pos >= 1 =>
         LET line == call.lines[call.pos]
         IN  /\ Includes(line, Eps) =>
                  /\ call.out.aired = call.prev.aired
                  /\ call.out.episodes # call.prev.episodes =>
                       /\ call.out.episodes.t = "str"
                       /\ call.out.episodes.s # <<>>
                       /\ \A i \in 1..Len(call.out.episodes.s) :
                            call.out.episodes.s[i] \in Digits \cup {"?"}
                       /\ Followed(line, call.out.episodes.s, Eps)
                  /\ call.out.duration # call.prev.duration =>
                       \E n \in 1..Len(line) :
                         /\ \A i \in 1..n : call.out.duration.s[i] \in Digits
                         /\ call.out.duration.s
                              = SubSeq(call.out.duration.s, 1, n) \o <<" ">> \o Min
                         /\ Followed(line, SubSeq(call.out.duration.s, 1, n), Min)
             /\ (~Includes(line, Eps) /\ DateMatch(line)) =>
                  call.out = [call.prev EXCEPT !.aired = Str(line)]
             /\ (~Includes(line, Eps) /\ ~DateMatch(line)) => call.out = call.prev
    /\ (call.pc = "done" /\ call.lines = <<<<"O", "c", "t", " ", "6", ",", " ", "2", "0", "2", "5">>, <<"1", "1", " ", "e", "p", "s", ",", " ", "2", "3", " ", "m", "i", "n">>>>) =>
         call.out = [aired    |-> Str(<<"O", "c", "t", " ", "6", ",", " ", "2", "0", "2", "5">>),
                     episodes |-> Str(<<"1", "1">>),
                     duration |-> Str(<<"2", "3", " ", "m", "i", "n">>)]

\* Three lines scanned, the date of the third replacing that of the first.
C9_Witness ==
  /\ call.op = "info" /\ call.pc = "done"
  /\ call.lines = <<<<"O", "c", "t", " ", "6", ",", " ", "2", "0", "2", "5">>, <<"1", "1", " ", "e", "p", "s", ",", " ", "2", "3", " ", "m", "i", "n">>, <<"N", "o", "v", " ", "1", "2", ",", " ", "2", "0", "2", "4">>>>
  /\ call.out = [aired    |-> Str(<<"N", "o", "v", " ", "1", "2", ",", " ", "2", "0", "2", "4">>),
                 episodes |-> Str(<<"1", "1">>),
                 duration |-> Str(<<"2", "3", " ", "m", "i", "n">>)]

(***************************************************************************)
(* Entry elements the documents are built from.                            *)
(***************************************************************************)
\* a complete entry
TitledElement ==
  [href |-> Str(<<"/", "a", "n", "i", "m", "e", "/", "1", "/", "a">>),
   linkText |-> <<" ", "A", " ">>,
   jsTitle |-> <<"B">>,
   jsScore |-> <<"8", ".", "5">>,
   score |-> <<>>,
   jsMembers |-> <<"1", ",", "2", "3", "4">>,
   dataSrc |-> Undefined,
   src |-> Str(<<"/", "i", "/", "1", ".", "j", "p", "g">>),
   dataLazySrc |-> Undefined,
   info |-> <<"O", "c", "t", " ", "6", ",", " ", "2", "0", "2", "5", "\n", " ", "1", "1", " ", "e", "p", "s", ",", " ", "2", "3", " ", "m", "i", "n">>]

\* another complete entry
SecondElement ==
  [href |-> Str(<<"/", "a", "n", "i", "m", "e", "/", "2", "/", "c">>),
   linkText |-> <<"C">>,
   jsTitle |-> <<>>,
   jsScore |-> <<>>,
   score |-> <<"N", "/", "A">>,
   jsMembers |-> <<"5", "6">>,
   dataSrc |-> Str(<<"/", "/", "c", "/", "2", ".", "p", "n", "g">>),
   src |-> Undefined,
   dataLazySrc |-> Undefined,
   info |-> <<"?", " ", "e", "p", "s">>]

\* an entry titled by its .js-title node only, every other field missing or malformed
FallbackElement ==
  [href |-> Undefined,
   linkText |-> <<>>,
   jsTitle |-> <<" ", "B">>,
   jsScore |-> <<"A">>,
   score |-> <<>>,
   jsMembers |-> <<",">>,
   dataSrc |-> Undefined,
   src |-> Str(<<"i", "m", "g">>),
   dataLazySrc |-> Undefined,
   info |-> <<"T", "V">>]

\* an entry without title text, every other field well formed
UntitledElement ==
  [href |-> Str(<<"/", "a", "n", "i", "m", "e", "/", "3", "/", "d">>),
   linkText |-> <<" ">>,
   jsTitle |-> <<>>,
   jsScore |-> <<"8", ".", "5">>,
   score |-> <<>>,
   jsMembers |-> <<"1", ",", "2", "3", "4">>,
   dataSrc |-> Undefined,
   src |-> Str(<<"/", "i", "/", "1", ".", "j", "p", "g">>),
   dataLazySrc |-> Undefined,
   info |-> <<"O", "c", "t", " ", "6", ",", " ", "2", "0", "2", "5", "\n", " ", "1", "1", " ", "e", "p", "s", ",", " ", "2", "3", " ", "m", "i", "n">>]

\* an entry whose title text is the fallback title itself
SentinelElement ==
  [href |-> Str(<<"/", "a", "n", "i", "m", "e", "/", "4", "/", "e">>),
   linkText |-> <<"U", "n", "k", "n", "o", "w", "n", " ", "T", "i", "t", "l", "e">>,
   jsTitle |-> <<"B">>,
   jsScore |-> <<"8", ".", "5">>,
   score |-> <<>>,
   jsMembers |-> <<>>,
   dataSrc |-> Undefined,
   src |-> Undefined,
   dataLazySrc |-> Undefined,
   info |-> <<>>]

Elements ==
  {TitledElement, SecondElement, FallbackElement, UntitledElement, SentinelElement}

\* The keys of the containers of a document: three of the day keys and one
\* key that is none of them.
DocumentKeys == {"tuesday", "monday", "unknown", "tba"}

MaxNodes == 4

Nodes == {Container(key) : key \in DocumentKeys} \cup {Entry(el) : el \in Elements}

Documents == Texts(Nodes, MaxNodes)

(***************************************************************************)
(* One extraction pass over a loaded document.                             *)
(***************************************************************************)
InitScrape ==
  /\ req = <<>>
  /\ now = 0
  /\ call = [op |-> "scrape", pc |-> "load", doc |-> <<>>, out |-> <<>>]

\* const $ = load(html)
LoadDocument ==
  /\ call.op = "scrape" /\ call.pc = "load"
  /\ \E doc \in Documents : call' = [call EXCEPT !.doc = doc, !.pc = "extract"]
  /\ UNCHANGED <<req, now>>

\* lines 37-158
ExtractSchedule ==
  /\ call.op = "scrape" /\ call.pc = "extract"
  /\ call' = [call EXCEPT !.out = Scrape(call.doc), !.pc = "done"]
  /\ UNCHANGED <<req, now>>

NextScrape == LoadDocument \/ ExtractSchedule

SpecScrape == InitScrape /\ [][NextScrape]_vars

(***************************************************************************)
(* Properties of the extraction pass.                                      *)
(***************************************************************************)
\* The title text of an entry as stated: the trimmed link text, else the
\* trimmed .js-title text.
StatedTitle(el) ==
  IF Trim(el.linkText) # <<>> THEN Trim(el.linkText) ELSE Trim(el.jsTitle)

Usable(el) == StatedTitle(el) # <<>> /\ StatedTitle(el) # UnknownTitle

\* The positions of the entries of the containers of a key, ascending.
RECURSIVE Ascending(_)
Ascending(S) ==
  IF S = {} THEN <<>>
  ELSE LET i == CHOOSE j \in S : \A k \in S : j <= k
       IN  <<i>> \o Ascending(S \ {i})

EntriesUnder(doc, dayKey) ==
  {i \in 1..Len(doc) :
     /\ doc[i].kind = "entry"
     /\ \E c \in 1..(i - 1) :
          /\ doc[c].kind = "container" /\ doc[c].key = dayKey
          /\ \A j \in (c + 1)..(i - 1) : doc[j].kind = "entry"}

\* The records emitted under a label (none when the label is not emitted).
RecordsOf(schedule, label) ==
  LET at == {g \in 1..Len(schedule) : schedule[g].day = label}
  IN  IF at = {} THEN <<>> ELSE schedule[CHOOSE g \in at : TRUE].anime

\* How many of the emitted records of a label were built from element el.
Emitted(schedule, label, el) ==
  Cardinality({r \in 1..Len(RecordsOf(schedule, label)) :
                 RecordsOf(schedule, label)[r] = AnimeData(el, label)})

\* C2: an entry is left out of its group's records exactly when its title
\* text is empty or "Unknown Title", whatever its other fields are, and no
\* emitted record has an empty or "Unknown Title" title.
C2_DroppedIffNoTitle ==
  (call.op = "scrape" /\ call.pc = "done") =>
    /\ \A d \in 1..Len(DayKeys) :
         LET label == DayName(DayKeys[d])
             under == EntriesUnder(call.doc, DayKeys[d])
         IN  /\ Len(RecordsOf(call.out, label))
                  = Cardinality({i \in under : Usable(call.doc[i].el)})
             /\ \A i \in under :
                  Usable(call.doc[i].el)
                    <=> Emitted(call.out, label, call.doc[i].el) >= 1
    /\ \A g \in 1..Len(call.out) : \A r \in 1..Len(call.out[g].anime) :
         /\ call.out[g].anime[r].title.t = "str"
         /\ call.out[g].anime[r].title.s \notin {<<>>, UnknownTitle}

\* A document with a titled entry with malformed fields, which is kept, and
\* an untitled entry with well-formed fields, which is dropped.
C2_Witness ==
  /\ call.op = "scrape" /\ call.pc = "done"
  /\ call.doc = <<Container("monday"), Entry(UntitledElement),
                  Entry(FallbackElement), Entry(SentinelElement)>>
  /\ Len(call.out) = 1
  /\ Len(call.out[1].anime) = 1
  /\ call.out[1].anime[1].title = Str(<<"B">>)
  /\ call.out[1].anime[1].score = NaN

\* C3: the label of a day key is emitted exactly when the document has a
\* container of that key with at least one entry with a usable title, and
\* no emitted group is empty.
C3_GroupIffSurvivor ==
  (call.op = "scrape" /\ call.pc = "done") =>
    /\ \A d \in 1..Len(DayKeys) :
         (\E g \in 1..Len(call.out) : call.out[g].day = DayName(DayKeys[d]))
           <=> /\ \E c \in 1..Len(call.doc) :
                    call.doc[c].kind = "container" /\ call.doc[c].key = DayKeys[d]
               /\ \E i \in EntriesUnder(call.doc, DayKeys[d]) : Usable(call.doc[i].el)
    /\ \A g \in 1..Len(call.out) : Len(call.out[g].anime) >= 1

\* A document with a container whose entries are all dropped and a container
\* with a surviving entry: one group is emitted.
C3_Witness ==
  /\ call.op = "scrape" /\ call.pc = "done"
  /\ call.doc = <<Container("tuesday"), Entry(UntitledElement),
                  Container("unknown"), Entry(TitledElement)>>
  /\ Len(call.out) = 1
  /\ call.out[1].day = "Unknown"

\* The position of a label in the fixed order of the buckets.
BucketOrder ==
  <<"Monday", "Tuesday", "Wednesday", "Thursday", "Friday", "Saturday",
    "Sunday", "Other", "Unknown">>

BucketIndex(label) == CHOOSE b \in 1..Len(BucketOrder) : BucketOrder[b] = label

\* C4: the emitted groups follow the fixed bucket order, each label at most
\* once, whatever the order of the containers in the document, and the
\* records of a group keep the document order of their entries.
C4_BucketAndDocumentOrder ==
  (call.op = "scrape" /\ call.pc = "done") =>
    /\ \A g \in 1..Len(call.out) :
         \E b \in 1..Len(BucketOrder) : BucketOrder[b] = call.out[g].day
    /\ \A g, h \in 1..Len(call.out) :
         g < h => BucketIndex(call.out[g].day) < BucketIndex(call.out[h].day)
    /\ \A d \in 1..Len(DayKeys) :
         LET label == DayName(DayKeys[d])
             kept  == Ascending({i \in EntriesUnder(call.doc, DayKeys[d]) :
                                   Usable(call.doc[i].el)})
         IN  RecordsOf(call.out, label)
               = [r \in 1..Len(kept) |-> AnimeData(call.doc[kept[r]].el, label)]

\* A document with the Tuesday container before the Monday one: Monday is
\* emitted first.
C4_Witness ==
  /\ call.op = "scrape" /\ call.pc = "done"
  /\ call.doc = <<Container("tuesday"), Entry(SecondElement),
                  Container("monday"), Entry(TitledElement)>>
  /\ Len(call.out) = 2
  /\ call.out[1].day = "Monday" /\ call.out[2].day = "Tuesday"
  /\ call.out[1].anime[1].title = Str(<<"A">>)

(***************************************************************************)
(* The handler of GET /api/anime-schedule (lines 181-206), one instance    *)
(* per request.  A request waits at two places: for the fetch (line 11)    *)
(* and for the body of the response (line 21); what runs between two waits *)
(* is one step.  now is the clock Date.now() reads, in seconds.            *)
(***************************************************************************)
NumRequests == 2

MaxClock == 2

Requests == 1..NumRequests

\* The documents the upstream site may serve.
SampleDocuments ==
  {<<>>,
   <<Container("monday"), Entry(TitledElement)>>,
   <<Container("tuesday"), Entry(SecondElement),
     Container("monday"), Entry(FallbackElement)>>,
   <<Container("unknown"), Entry(UntitledElement)>>}

Statuses == {200, 404, 503}

\* response.ok
Ok(status) == status >= 200 /\ status <= 299

\* What a fetch may come to: a rejection, or a response with a status and a
\* body; the body of a response may fail to arrive in full.
FetchResults ==
  {[kind |-> "rejected", status |-> 0, body |-> <<>>, readable |-> FALSE]}
    \cup {[kind |-> "response", status |-> st, body |-> doc, readable |-> TRUE] :
            st \in Statuses, doc \in SampleDocuments}
    \cup {[kind |-> "response", status |-> 200, body |-> doc, readable |-> FALSE] :
            doc \in SampleDocuments}

NoResult == [kind |-> "none", status |-> 0, body |-> <<>>, readable |-> FALSE]

NoResponse == [status |-> 0, cors |-> "", body |-> [none |-> TRUE]]

\* The message of the error the fetch rejects with, of the error line 18
\* throws, and of the error response.text() rejects with.
FetchFailedMessage == [text |-> "fetch failed", status |-> 0]

StatusMessage(status) == [text |-> "Failed to fetch schedule: ", status |-> status]

BodyFailedMessage == [text |-> "terminated", status |-> 0]

\* JSON.stringify writes NaN as null.
JsonNumber(v) == IF v = NaN THEN Null ELSE v

JsonSchedule(schedule) ==
  [g \in 1..Len(schedule) |->
     [day   |-> schedule[g].day,
      anime |-> [r \in 1..Len(schedule[g].anime) |->
                   [schedule[g].anime[r] EXCEPT !.score = JsonNumber(@),
                                                !.members = JsonNumber(@)]]]]

\* schedule.reduce((total, daySchedule) => total + daySchedule.anime.length, 0)
RECURSIVE TotalEntries(_)
TotalEntries(schedule) ==
  IF schedule = <<>> THEN 0
  ELSE Len(Head(schedule).anime) + TotalEntries(Tail(schedule))

\* lines 195-201
SuccessResponse(schedule, time) ==
  [status |-> 200, cors |-> "*",
   body |-> [lastUpdated |-> time,
             total       |-> TotalEntries(schedule),
             schedule    |-> JsonSchedule(schedule)]]

\* An error path that answers with an empty schedule instead of the error.
FailureAsEmptySchedule(message) ==
  [status |-> 200, cors |-> "*",
   body |-> [lastUpdated |-> 0, total |-> 0, schedule |-> <<>>]]

\* lines 202-205
FailureResponse(message) ==
  [status |-> 500, cors |-> "*",
   body |-> [error |-> "Failed to fetch anime schedule", details |-> message]]

\* A schedule kept in one place for all requests: the document of the
\* lowest-numbered request that has a response.
ScheduleShared(r) ==
  LET have == {q \in Requests : req[q].res.kind = "response"}
  IN  Scrape(req[CHOOSE q \in have : \A p \in have : q <= p].res.body)

\* line 189 with lines 21-22: the schedule the handler of request r gets is
\* extracted from the body of the response to its own fetch.
ScheduleFor(r) == Scrape(req[r].res.body)

Init ==
  /\ req = [r \in Requests |->
              [pc |-> "idle", fetches |-> 0, passes |-> 0, res |-> NoResult,
               response |-> NoResponse]]
  /\ now = 0
  /\ call = [op |-> "none"]

\* lines 181-189 and 9-15: the handler starts and issues the fetch.
Receive(r) ==
  /\ req[r].pc = "idle"
  /\ req' = [req EXCEPT ![r].pc = "fetching", ![r].fetches = @ + 1]
  /\ UNCHANGED <<now, call>>

\* The fetch rejects: lines 159-161 rethrow, lines 202-205 answer.
FetchRejected(r) ==
  /\ req[r].pc = "fetching"
  /\ \E res \in FetchResults :
       /\ res.kind = "rejected"
       /\ req' = [req EXCEPT ![r].pc = "done", ![r].res = res,
                             ![r].response = FailureResponse(FetchFailedMessage)]
  /\ UNCHANGED <<now, call>>

\* The fetch resolves: lines 17-21.
FetchResolved(r) ==
  /\ req[r].pc = "fetching"
  /\ \E res \in FetchResults :
       /\ res.kind = "response"
       /\ IF ~Ok(res.status)
          THEN req' = [req EXCEPT ![r].pc = "done", ![r].res = res,
                                  ![r].response = FailureResponse(StatusMessage(res.status))]
          ELSE req' = [req EXCEPT ![r].pc = "reading", ![r].res = res]
  /\ UNCHANGED <<now, call>>

\* The body arrives: lines 21-158 and 189-201.
BodyRead(r) ==
  /\ req[r].pc = "reading"
  /\ req[r].res.readable
  /\ req' = [req EXCEPT ![r].pc = "done", ![r].passes = @ + 1,
                        ![r].response = SuccessResponse(ScheduleFor(r), now)]
  /\ UNCHANGED <<now, call>>

\* The body does not arrive: response.text() rejects.
BodyFailed(r) ==
  /\ req[r].pc = "reading"
  /\ ~req[r].res.readable
  /\ req' = [req EXCEPT ![r].pc = "done",
                        ![r].response = FailureResponse(BodyFailedMessage)]
  /\ UNCHANGED <<now, call>>

Tick ==
  /\ now < MaxClock
  /\ now' = now + 1
  /\ UNCHANGED <<req, call>>

Next ==
  \/ \E r \in Requests :
       Receive(r) \/ FetchRejected(r) \/ FetchResolved(r) \/ BodyRead(r) \/ BodyFailed(r)
  \/ Tick

Spec == Init /\ [][Next]_vars

(***************************************************************************)
(* Properties of the request handler.                                      *)
(***************************************************************************)
\* The fetch of a request failed: it was rejected, or answered with a status
\* outside 200-299, or the body of the answer could not be read.
Failed(res) ==
  \/ res.kind = "rejected"
  \/ res.status < 200 \/ res.status > 299
  \/ ~res.readable

\* C1: a request whose fetch fails, answers with a non-success status, or
\* whose body cannot be read ends with status 500 and an envelope of error
\* and details only: no schedule, no total, and no extraction pass ran.
C1_FailureIsErrorOnly ==
  \A r \in Requests :
    (req[r].pc = "done" /\ Failed(req[r].res)) =>
      /\ req[r].response.status = 500
      /\ DOMAIN req[r].response.body = {"error", "details"}
      /\ req[r].passes = 0

\* A 404 answer whose body holds a container with a titled entry.
C1_Witness ==
  \E r \in Requests :
    /\ req[r].pc = "done"
    /\ req[r].res.status = 404
    /\ req[r].res.body = <<Container("monday"), Entry(TitledElement)>>
    /\ req[r].response.status = 500
    /\ req[r].response.body.details = [text |-> "Failed to fetch schedule: ", status |-> 404]

\* The response a finished request owes to the result of its own fetch.
OwnOutcome(r) ==
  LET res == req[r].res
      out == req[r].response
  IN  IF Failed(res)
      THEN /\ req[r].passes = 0
           /\ out.status = 500
           /\ out.body.error = "Failed to fetch anime schedule"
           /\ out.body.details =
                IF res.kind = "rejected" THEN [text |-> "fetch failed", status |-> 0]
                ELSE IF res.status < 200 \/ res.status > 299
                THEN [text |-> "Failed to fetch schedule: ", status |-> res.status]
                ELSE [text |-> "terminated", status |-> 0]
      ELSE /\ req[r].passes = 1
           /\ out.status = 200
           /\ out.body.schedule = JsonSchedule(Scrape(res.body))
           /\ out.body.total = TotalEntries(Scrape(res.body))
           /\ out.body.lastUpdated \in 0..now

\* C10: under every interleaving each request makes exactly one fetch and
\* then at most one extraction pass (one when the fetch succeeds), its
\* response is the one the result of its own fetch determines, a step of one
\* request changes no other request, and a finished request stays as it is.
C10_RequestsIndependent ==
  /\ [](\A r \in Requests :
          /\ req[r].fetches = (IF req[r].pc = "idle" THEN 0 ELSE 1)
          /\ req[r].passes <= req[r].fetches
          /\ req[r].pc # "done" => (req[r].passes = 0 /\ req[r].response = NoResponse)
          /\ req[r].pc = "done" => OwnOutcome(r))
  /\ [][\A r \in Requests :
          /\ req[r].pc = "done" => req'[r] = req[r]
          /\ req'[r] # req[r] => \A q \in Requests \ {r} : req'[q] = req[q]]_vars

\* One request failed with status 503 and another, served a document,
\* answered with its two records.
C10_Witness ==
  \E r, q \in Requests :
    /\ r # q
    /\ req[r].pc = "done" /\ req[r].res.status = 503
    /\ req[r].res.body = <<Container("monday"), Entry(TitledElement)>>
    /\ req[r].response.status = 500
    /\ req[q].pc = "done" /\ req[q].response.status = 200
    /\ req[q].res.body = <<Container("tuesday"), Entry(SecondElement),
                           Container("monday"), Entry(FallbackElement)>>
    /\ req[q].response.body.total = 2
    /\ req[q].response.body.schedule[1].anime[1].score = Null

====
